---- MODULE Spec2Model ----
(***************************************************************************)
(* Show-rule recipes (src/src/model/recipe.rs), the speculative value      *)
(* resolver and the module resolver (src/src/ide/analyze.rs) and lexical   *)
(* path normalisation (src/src/util/mod.rs).                               *)
(***************************************************************************)
EXTENDS Integers, Sequences, FiniteSets, TLC

VARIABLES
    last,       \* the record of the last call into the recipe engine
    chain,      \* the active recipe chain of the resolution loop
    node,       \* the node under consideration in the resolution loop
    phase,      \* the state of the resolution loop
    pos,        \* the position in the chain of the candidate recipe
    fired,      \* the successful applications of the loop, oldest first
    depth,      \* how often produced content re-entered the loop
    world,      \* what the World and the evaluator answer to the resolvers
    query,      \* the arguments of the last call into a resolver
    answer      \* what that call returned and did

engineVars == <<last, chain, node, phase, pos, fired, depth>>
ideVars == <<world, query, answer>>
vars == <<last, chain, node, phase, pos, fired, depth, world, query, answer>>

(***************************************************************************)
(* Bounds                                                                  *)
(***************************************************************************)
MaxChain == 2
MaxGuards == 2
MaxDepth == MaxChain + 2

(***************************************************************************)
(* Node identities, selectors, content                                     *)
(***************************************************************************)
ListNode == "list"
EnumNode == "enum"
HeadingNode == "heading"
NodeId == {ListNode, EnumNode, HeadingNode}

\* Source spans: of a rule definition, or inside a function body.
Span == {"s1", "s2"}

\* enum Selector { Nth(usize), Base(NodeId) }
Nth(n) == [tag |-> "Nth", n |-> n, id |-> "-"]
Base(id) == [tag |-> "Base", n |-> 0, id |-> id]
Selector == {Nth(n) : n \in 1 .. MaxChain} \cup {Base(id) : id \in NodeId}

\* The field-name-to-value mapping of a node (ShowNode::encode).
encode(n) ==
    [tag |-> "Dict",
     fields |-> IF n.id = HeadingNode THEN {"level", "body"} ELSE {"tight", "items"}]

NoDict == [tag |-> "NoDict", fields |-> {}]

\* A showable node with the guards that mark it (ShowNode / Content::Show).
Node == [id : NodeId, guards : {g \in SUBSET Selector : Cardinality(g) <= MaxGuards}]

\* ShowNode::unguard: clears the guard of sel and of no other selector.
unguard(n, sel) == [n EXCEPT !.guards = @ \ {sel}]

\* Content::Show(node, dict)
Show(n, dict) == [id |-> n.id, guards |-> n.guards, dict |-> dict]

\* Content::styled_with_entry(StyleEntry::Guard(sel))
styled_with_entry(content, sel) == [content EXCEPT !.guards = @ \cup {sel}]

NoContent == [id |-> "-", guards |-> {}, dict |-> NoDict]

\* enum Value: content, or another runtime value (here a dictionary or none).
ContentValue(c) == [tag |-> "Content", content |-> c, dict |-> NoDict]
DictValue(d) == [tag |-> "Dict", content |-> NoContent, dict |-> d]
NoneValue == [tag |-> "None", content |-> NoContent, dict |-> NoDict]

(***************************************************************************)
(* Functions and errors                                                    *)
(***************************************************************************)
NoErr == [kind |-> "-", span |-> "-"]
Error(kind, span) == [kind |-> kind, span |-> span]

\* Func::argc is an Option<usize>: -1 stands for None (no fixed arity).
Argc == {-1, 0, 1, 2}
Body == {"arg", "list", "enum", "heading", "none", "raise"}

\* A function: its declared arity, what its body does, and the span inside
\* its body at which it raises (for "raise").
Func == {f \in [argc : Argc, body : Body, at : Span] :
            /\ f.body = "arg" => f.argc # 0
            /\ f.body # "raise" => f.at = "s1"}

\* Func::call: the arguments are checked against the declared arity, an
\* argument error carries the span of the arguments; then the body runs.
FuncCall(f, args, argsSpan) ==
    IF f.argc >= 0 /\ Len(args) # f.argc
    THEN [ok |-> FALSE, value |-> NoneValue, err |-> Error("args", argsSpan)]
    ELSE CASE f.body = "arg" ->
                [ok |-> TRUE,
                 value |-> IF Len(args) > 0 THEN args[1] ELSE NoneValue,
                 err |-> NoErr]
           [] f.body = "none" -> [ok |-> TRUE, value |-> NoneValue, err |-> NoErr]
           [] f.body = "raise" ->
                [ok |-> FALSE, value |-> NoneValue, err |-> Error("body", f.at)]
           [] OTHER ->
                [ok |-> TRUE,
                 value |-> ContentValue([id |-> f.body, guards |-> {}, dict |-> NoDict]),
                 err |-> NoErr]

\* Value::cast::<Content>()
cast(v) == IF v.tag = "Content"
           THEN [ok |-> TRUE, content |-> v.content]
           ELSE [ok |-> FALSE, content |-> NoContent]

(***************************************************************************)
(* Recipe                                                                  *)
(***************************************************************************)
\* struct Recipe { pattern: Pattern::Node(id), func, span }
Recipe == [pattern : NodeId, func : Func, span : Span]

\* Recipe::applicable
applicable(r, target) == r.pattern = target.id

\* The match arm of Recipe::apply: (Target::Node(node), &Pattern::Node(id))
\* if node.id() == id
applyMatchesAlways(r, target) == TRUE
applyMatches(r, target) == target.id = r.pattern

\* The argument closure of Recipe::apply.
applyArg(n) == ContentValue(Show(n, encode(n)))

\* The arguments Recipe::call builds.
callArgsAlways(f, arg) == <<arg>>
callArgs(f, arg) == IF f.argc = 0 THEN <<>> ELSE <<arg>>

\* Recipe::call: self.func.call(ctx, args)?.cast().at(self.span)
call(r, arg) ==
    LET args == callArgs(r.func, arg)
        res == FuncCall(r.func, args, r.span)
    IN  IF ~res.ok
        THEN [ok |-> FALSE, content |-> NoContent, err |-> res.err, args |-> args]
        ELSE IF ~cast(res.value).ok
        THEN [ok |-> FALSE, content |-> NoContent,
              err |-> Error("cast", r.span), args |-> args]
        ELSE [ok |-> TRUE, content |-> cast(res.value).content,
              err |-> NoErr, args |-> args]

\* The last line of Recipe::apply.
applyWrapNone(content, sel) == content
applyWrap(content, sel) == styled_with_entry(content, sel)

\* Which node the argument closure of Recipe::apply captures.
applyNode(target, sel) == unguard(target, sel)

\* Recipe::apply.  tag is "None" (Ok(None)), "Some" (Ok(Some(content))) or
\* "Err"; unguarded and calls record what the call did on the way.
apply(r, sel, target) ==
    IF applyMatches(r, target)
    THEN LET n == applyNode(target, sel)
             c == call(r, applyArg(n))
         IN  IF c.ok
             THEN [tag |-> "Some", content |-> applyWrap(c.content, sel),
                   err |-> NoErr, unguarded |-> TRUE, calls |-> <<c.args>>]
             ELSE [tag |-> "Err", content |-> NoContent,
                   err |-> c.err, unguarded |-> TRUE, calls |-> <<c.args>>]
    ELSE [tag |-> "None", content |-> NoContent, err |-> NoErr,
          unguarded |-> FALSE, calls |-> <<>>]

\* Recipe::interruption
interruptionListOnly(r) == IF r.pattern = ListNode THEN "List" ELSE "None"
interruption(r) ==
    IF r.pattern = ListNode \/ r.pattern = EnumNode THEN "List" ELSE "None"

\* The resolvers of src/src/ide/analyze.rs take no part in these calls.
NoWorld == [kind |-> "-"]
NoQuery == [kind |-> "-"]
NoAnswer == [kind |-> "-"]

(***************************************************************************)
(* Calls into the recipe engine: one recipe, one target node               *)
(***************************************************************************)
NoSel == [tag |-> "-", n |-> 0, id |-> "-"]
NoRes == [tag |-> "-", content |-> NoContent, err |-> NoErr,
          unguarded |-> FALSE, calls |-> <<>>]
Idle == [op |-> "idle", sel |-> NoSel, res |-> NoRes]

\* The recipe and the target of the calls.
TheRecipe == chain[1]

InitEngine ==
    /\ chain \in {<<r>> : r \in Recipe}
    /\ node \in Node
    /\ last = Idle
    /\ phase = "Calls"
    /\ pos = 0
    /\ fired = <<>>
    /\ depth = 0
    /\ world = NoWorld
    /\ query = NoQuery
    /\ answer = NoAnswer

CallApplicable ==
    /\ last' = [op |-> "applicable", sel |-> NoSel,
                res |-> [NoRes EXCEPT !.tag =
                            IF applicable(TheRecipe, node) THEN "True" ELSE "False"]]
    /\ UNCHANGED <<chain, node, phase, pos, fired, depth>>
    /\ UNCHANGED ideVars

CallApply ==
    \E sel \in Selector :
        /\ last' = [op |-> "apply", sel |-> sel, res |-> apply(TheRecipe, sel, node)]
        /\ UNCHANGED <<chain, node, phase, pos, fired, depth>>
        /\ UNCHANGED ideVars

CallInterruption ==
    /\ last' = [op |-> "interruption", sel |-> NoSel,
                res |-> [NoRes EXCEPT !.tag = interruption(TheRecipe)]]
    /\ UNCHANGED <<chain, node, phase, pos, fired, depth>>
    /\ UNCHANGED ideVars

NextEngine == CallApplicable \/ CallApply \/ CallInterruption

SpecEngine == InitEngine /\ [][NextEngine]_vars

(***************************************************************************)
(* The resolution loop over the recipe chain                               *)
(***************************************************************************)
\* The recipes of the loop's chains: rules that return the matched node
\* itself, rules that build new content, and rules that fail.
LoopFunc == {[argc |-> 1, body |-> "arg", at |-> "s1"],
             [argc |-> 0, body |-> "list", at |-> "s1"],
             [argc |-> 1, body |-> "heading", at |-> "s1"],
             [argc |-> 0, body |-> "none", at |-> "s1"],
             [argc |-> 1, body |-> "raise", at |-> "s2"]}
LoopRecipe == [pattern : {ListNode, HeadingNode}, func : LoopFunc, span : {"s1"}]
LoopNode == [id : {ListNode, HeadingNode}, guards : {{}, {Nth(1)}}]

SeqsUpTo(S, n) == UNION {[1 .. k -> S] : k \in 1 .. n}

\* The content as the node under consideration.
AsNode(c) == [id |-> c.id, guards |-> c.guards]

InitLoop ==
    /\ chain \in SeqsUpTo(LoopRecipe, MaxChain)
    /\ node \in LoopNode
    /\ last = Idle
    /\ phase = "Unresolved"
    /\ pos = 0
    /\ fired = <<>>
    /\ depth = 0
    /\ world = NoWorld
    /\ query = NoQuery
    /\ answer = NoAnswer

\* Unresolved node -> matching the first candidate recipe.
Begin ==
    /\ phase = "Unresolved"
    /\ phase' = "Matching"
    /\ pos' = 1
    /\ UNCHANGED <<last, chain, node, fired, depth>>
    /\ UNCHANGED ideVars

\* Guarded/Skip: the selector of the candidate is a guard on the node.
Skip ==
    /\ phase = "Matching"
    /\ pos <= Len(chain)
    /\ Nth(pos) \in node.guards
    /\ pos' = pos + 1
    /\ UNCHANGED <<last, chain, node, phase, fired, depth>>
    /\ UNCHANGED ideVars

\* The candidate is tried: not applicable, applied, or failed.
Try ==
    /\ phase = "Matching"
    /\ pos <= Len(chain)
    /\ Nth(pos) \notin node.guards
    /\ LET res == apply(chain[pos], Nth(pos), node)
       IN  /\ last' = [op |-> "apply", sel |-> Nth(pos), res |-> res]
           /\ phase' = CASE res.tag = "Some" -> "Applied"
                         [] res.tag = "Err" -> "Failed"
                         [] OTHER -> "Matching"
           /\ pos' = IF res.tag = "None" THEN pos + 1 ELSE pos
           /\ fired' = IF res.tag = "Some"
                       THEN Append(fired, [sel |-> Nth(pos), target |-> node,
                                           out |-> AsNode(res.content)])
                       ELSE fired
    /\ UNCHANGED <<chain, node, depth>>
    /\ UNCHANGED ideVars

\* Exhausted chain: no recipe fired, the node renders as it is.
Exhaust ==
    /\ phase = "Matching"
    /\ pos > Len(chain)
    /\ phase' = "Exhausted"
    /\ UNCHANGED <<last, chain, node, pos, fired, depth>>
    /\ UNCHANGED ideVars

\* Applied/Re-enter: the produced content is the next node to resolve.
ReEnter ==
    /\ phase = "Applied"
    /\ depth < MaxDepth
    /\ node' = AsNode(last.res.content)
    /\ phase' = "Unresolved"
    /\ pos' = 0
    /\ depth' = depth + 1
    /\ UNCHANGED <<last, chain, fired>>
    /\ UNCHANGED ideVars

NextLoop == Begin \/ Skip \/ Try \/ Exhaust \/ ReEnter

SpecLoop == InitLoop /\ [][NextLoop]_vars

(***************************************************************************)
(* Runtime values and the syntax tree of the probed source                 *)
(***************************************************************************)
MaxEvents == 3

\* enum Value: literals, and dictionaries from field names to values.
Lit(tag, n) == [tag |-> tag, n |-> n, entries |-> {}]
Dict(entries) == [tag |-> "Dict", n |-> 0, entries |-> entries]

\* Value::field: the projection of a field, which fails on a value that is no
\* dictionary and on a dictionary without the field.
field(v, name) ==
    IF v.tag = "Dict" /\ \E e \in v.entries : e.name = name
    THEN [ok |-> TRUE, value |-> (CHOOSE e \in v.entries : e.name = name).val]
    ELSE [ok |-> FALSE, value |-> Lit("None", 0)]

\* The values the evaluator produces in the modelled runs.
EvalValue ==
    {Dict({[name |-> "b", val |-> Lit("Int", 2)]}),
     Dict({[name |-> "c", val |-> Lit("Int", 3)]}),
     Dict({[name |-> "b", val |-> Dict({[name |-> "c", val |-> Lit("Int", 4)]})]})}

\* The linked syntax tree of the source
\*     a.b.c  42  f()  7.b  none auto true 1.5 2pt "s"
\* Each node: its kind, parent (0: none), index among the parent's children,
\* children, the field of a field access, and the value of a literal.
SyntaxNode(kind, parent, index, children, fld, lit) ==
    [kind |-> kind, parent |-> parent, index |-> index,
     children |-> children, fld |-> fld, lit |-> lit]
NoLit == Lit("-", 0)
Tree ==
    <<SyntaxNode("Markup", 0, 0, <<2, 9, 10, 11, 12, 16, 17, 18, 19, 20, 21>>, "-", NoLit),
      SyntaxNode("FieldAccess", 1, 0, <<3, 7, 8>>, "c", NoLit),
      SyntaxNode("FieldAccess", 2, 0, <<4, 5, 6>>, "b", NoLit),
      SyntaxNode("Ident", 3, 0, <<>>, "-", NoLit),
      SyntaxNode("Dot", 3, 1, <<>>, "-", NoLit),
      SyntaxNode("Ident", 3, 2, <<>>, "-", NoLit),
      SyntaxNode("Dot", 2, 1, <<>>, "-", NoLit),
      SyntaxNode("Ident", 2, 2, <<>>, "-", NoLit),
      SyntaxNode("Int", 1, 1, <<>>, "-", Lit("Int", 42)),
      SyntaxNode("FuncCall", 1, 2, <<>>, "-", NoLit),
      SyntaxNode("Space", 1, 3, <<>>, "-", NoLit),
      SyntaxNode("FieldAccess", 1, 4, <<13, 14, 15>>, "b", NoLit),
      SyntaxNode("Int", 12, 0, <<>>, "-", Lit("Int", 7)),
      SyntaxNode("Dot", 12, 1, <<>>, "-", NoLit),
      SyntaxNode("Ident", 12, 2, <<>>, "-", NoLit),
      SyntaxNode("None", 1, 5, <<>>, "-", Lit("None", 0)),
      SyntaxNode("Auto", 1, 6, <<>>, "-", Lit("Auto", 0)),
      SyntaxNode("Bool", 1, 7, <<>>, "-", Lit("Bool", 1)),
      SyntaxNode("Float", 1, 8, <<>>, "-", Lit("Float", 15)),
      SyntaxNode("Numeric", 1, 9, <<>>, "-", Lit("Numeric", 2)),
      SyntaxNode("Str", 1, 10, <<>>, "-", Lit("Str", 5))>>
SyntaxId == 1 .. Len(Tree)

LiteralKind == {"None", "Auto", "Bool", "Int", "Float", "Numeric", "Str"}
\* The kinds that cast to ast::Expr.
ExprKind == LiteralKind \cup {"FieldAccess", "Ident", "FuncCall"}

\* The spans at which the modelled runs produce values: the identifier a and
\* the call f().
EvalSpan == {n \in SyntaxId : /\ Tree[n].kind \in {"Ident", "FuncCall"}
                              /\ (Tree[n].index = 0 \/ Tree[Tree[n].parent].kind = "Markup")}

(***************************************************************************)
(* The evaluator with its tracer                                           *)
(***************************************************************************)
\* Tracer::new(Some(span))
TracerNew(span) == [span |-> span, values |-> <<>>]

\* The tracer is offered a value produced at a span.
TracerTrace(t, e) ==
    IF e.span = t.span THEN [t EXCEPT !.values = Append(@, e.value)] ELSE t

\* Tracer::finish
TracerFinish(t) == t.values

\* eval: runs the source, offering every value to the tracer; the run stops
\* at its first error, after w.errAt events (w.fails tells whether there is one).
RECURSIVE evalRun(_, _, _)
evalRun(events, t, k) ==
    IF k > Len(events) THEN t
    ELSE evalRun(events, TracerTrace(t, events[k]), k + 1)

eval(w, t) ==
    LET done == IF w.fails THEN SubSeq(w.events, 1, w.errAt) ELSE w.events
    IN  [ok |-> ~w.fails, tracer |-> evalRun(done, t, 1)]

(***************************************************************************)
(* analyze_expr                                                            *)
(***************************************************************************)
\* .filter_map(|target| target.field(&access.field()).ok()).collect()
RECURSIVE mapWhileField(_, _)
mapWhileField(vs, name) ==
    IF vs = <<>> \/ ~field(Head(vs), name).ok THEN <<>>
    ELSE <<field(Head(vs), name).value>> \o mapWhileField(Tail(vs), name)
RECURSIVE filterMapField(_, _)
filterMapField(vs, name) ==
    IF vs = <<>> THEN <<>>
    ELSE LET r == field(Head(vs), name)
         IN  (IF r.ok THEN <<r.value>> ELSE <<>>) \o filterMapField(Tail(vs), name)

\* The full-evaluation arm: eval(...).ok(); tracer.finish()
fullEvalOrNothing(w, span) ==
    LET run == eval(w, TracerNew(span))
    IN  IF run.ok THEN TracerFinish(run.tracer) ELSE <<>>
fullEval(w, span) ==
    LET run == eval(w, TracerNew(span))
    IN  TracerFinish(run.tracer)

\* analyze_expr(world, node): the values, and how many evaluations ran.
RECURSIVE analyze_expr(_, _)
analyze_expr(w, n) ==
    LET nd == Tree[n]
    IN  CASE nd.kind \in LiteralKind -> [values |-> <<nd.lit>>, evals |-> 0]
          [] nd.kind = "FieldAccess" ->
                IF nd.children = <<>> THEN [values |-> <<>>, evals |-> 0]
                ELSE LET base == analyze_expr(w, nd.children[1])
                     IN  [values |-> filterMapField(base.values, nd.fld),
                          evals |-> base.evals]
          [] nd.kind \in ExprKind \ (LiteralKind \cup {"FieldAccess"}) ->
                IF nd.parent # 0 /\ Tree[nd.parent].kind = "FieldAccess" /\ nd.index > 0
                THEN analyze_expr(w, nd.parent)
                ELSE [values |-> fullEval(w, n), evals |-> 1]
          [] OTHER -> [values |-> <<>>, evals |-> 0]

\* The runs of the evaluator: the events of the run without its error, and
\* the number of events after which the error (if any) stops the run.
Event == [span : EvalSpan, value : EvalValue]
AnalyzeWorld ==
    {w \in [kind : {"analyze"}, events : UNION {[1 .. k -> Event] : k \in 0 .. MaxEvents},
            fails : BOOLEAN, errAt : 0 .. MaxEvents] :
        /\ w.errAt <= Len(w.events)
        /\ ~w.fails => w.errAt = 0}

InitAnalyze ==
    /\ last = Idle
    /\ chain = <<>>
    /\ node = [id |-> ListNode, guards |-> {}]
    /\ phase = "Ide"
    /\ pos = 0
    /\ fired = <<>>
    /\ depth = 0
    /\ world \in AnalyzeWorld
    /\ query = NoQuery
    /\ answer = NoAnswer

AnalyzeExpr ==
    \E n \in SyntaxId :
        /\ query' = [kind |-> "analyze_expr", node |-> n]
        /\ answer' = [kind |-> "values", values |-> analyze_expr(world, n).values,
                      evals |-> analyze_expr(world, n).evals]
        /\ UNCHANGED <<world>>
        /\ UNCHANGED engineVars

NextAnalyze == AnalyzeExpr

SpecAnalyze == InitAnalyze /\ [][NextAnalyze]_vars

(***************************************************************************)
(* Paths: std::path as used by PathExt::normalize and analyze_import       *)
(***************************************************************************)
MaxPathLen == 4

\* A path string is a sequence of characters; "/" separates its segments.
Str(S, n) == UNION {[1 .. k -> S] : k \in 0 .. n}

\* The segments of a string between separators, empty ones dropped.
RECURSIVE Segments(_, _)
Segments(s, cur) ==
    IF s = <<>> THEN (IF cur = <<>> THEN <<>> ELSE <<cur>>)
    ELSE IF Head(s) = "/"
         THEN (IF cur = <<>> THEN <<>> ELSE <<cur>>) \o Segments(Tail(s), <<>>)
         ELSE Segments(Tail(s), Append(cur, Head(s)))

\* enum Component { RootDir, CurDir, ParentDir, Normal(name) }
RootDir == [kind |-> "RootDir", name |-> <<>>]
CurDir == [kind |-> "CurDir", name |-> <<>>]
ParentDir == [kind |-> "ParentDir", name |-> <<>>]
Normal(name) == [kind |-> "Normal", name |-> name]

HasRoot(s) == s # <<>> /\ Head(s) = "/"

\* Path::components: a "." segment is a component only at the start of a
\* path without a root, and is dropped elsewhere.
RECURSIVE SegmentComponents(_, _)
SegmentComponents(segs, first) ==
    IF segs = <<>> THEN <<>>
    ELSE LET seg == Head(segs)
             here == CASE seg = <<".">> -> (IF first THEN <<CurDir>> ELSE <<>>)
                       [] seg = <<".", ".">> -> <<ParentDir>>
                       [] OTHER -> <<Normal(seg)>>
         IN  here \o SegmentComponents(Tail(segs), FALSE)
Components(s) ==
    (IF HasRoot(s) THEN <<RootDir>> ELSE <<>>)
        \o SegmentComponents(Segments(s, <<>>), ~HasRoot(s))

\* The string of a sequence of components.
RECURSIVE ComponentsStr(_)
ComponentsStr(comps) ==
    IF comps = <<>> THEN <<>>
    ELSE LET c == Head(comps)
             text == CASE c.kind = "RootDir" -> <<"/">>
                       [] c.kind = "CurDir" -> <<".">>
                       [] c.kind = "ParentDir" -> <<".", ".">>
                       [] OTHER -> c.name
             rest == ComponentsStr(Tail(comps))
         IN  IF rest = <<>> \/ c.kind = "RootDir" THEN text \o rest
             ELSE text \o <<"/">> \o rest

\* Path::parent: none for the empty path and for a path that ends in its root.
parent(s) ==
    LET comps == Components(s)
    IN  IF comps = <<>> \/ comps[Len(comps)].kind = "RootDir"
        THEN [some |-> FALSE, path |-> <<>>]
        ELSE [some |-> TRUE, path |-> ComponentsStr(SubSeq(comps, 1, Len(comps) - 1))]

\* Path::join: an absolute path replaces the base, another one is appended
\* after a separator (none after an empty base or a trailing separator).
join(base, path) ==
    IF HasRoot(path) THEN path
    ELSE IF base = <<>> \/ base[Len(base)] = "/" THEN base \o path
    ELSE base \o <<"/">> \o path

\* str::strip_prefix('/')
strip_prefix(s) == IF HasRoot(s) THEN [some |-> TRUE, rest |-> Tail(s)]
                   ELSE [some |-> FALSE, rest |-> s]

\* One step of PathExt::normalize: the component is dropped, pops the last
\* component of out, or is pushed onto out.
normalizeStepPopAlways(out, c) ==
    CASE c.kind = "CurDir" -> out
      [] c.kind = "ParentDir" -> IF out # <<>> THEN SubSeq(out, 1, Len(out) - 1) ELSE out
      [] OTHER -> Append(out, c)
normalizeStep(out, c) ==
    CASE c.kind = "CurDir" -> out
      [] c.kind = "ParentDir" ->
            IF out # <<>> /\ out[Len(out)].kind = "Normal"
            THEN SubSeq(out, 1, Len(out) - 1)
            ELSE Append(out, c)
      [] OTHER -> Append(out, c)

RECURSIVE normalizeFrom(_, _)
normalizeFrom(out, comps) ==
    IF comps = <<>> THEN out
    ELSE normalizeFrom(normalizeStep(out, Head(comps)), Tail(comps))

\* PathExt::normalize, the path as its components.
normalize(s) == normalizeFrom(<<>>, Components(s))

(***************************************************************************)
(* analyze_import                                                          *)
(***************************************************************************)
\* let full: PathBuf = ...
importFull(w, src, path) ==
    IF strip_prefix(path).some
    THEN normalize(join(w.root, strip_prefix(path).rest))
    ELSE IF parent(src).some
    THEN normalize(join(parent(src).path, path))
    ELSE Components(path)

\* eval(...).ok() on the resolved source.
importEvalPropagate(w) == IF w.evalOk THEN "module" ELSE "error"
importEval(w) == IF w.evalOk THEN "module" ELSE "none"

\* analyze_import: the path handed to World::resolve, whether an evaluation
\* was started, and what came back.
analyze_import(w, src, path) ==
    LET full == importFull(w, src, path)
    IN  IF ~w.found
        THEN [kind |-> "none", full |-> full, evals |-> 0]
        ELSE [kind |-> importEval(w), full |-> full, evals |-> 1]

\* The project roots, the paths of the importing sources (the empty one is
\* that of a source without a file) and the import paths.
RootPath == {<<"/", "p">>, <<"/">>}
SourcePath == {<<>>, <<"b">>, <<"/", "b">>, <<"s", "/", "b">>,
               <<"/", "p", "/", "s", "/", "b">>}
ImportPath == Str({"/", ".", "a"}, MaxPathLen)

InitImport ==
    /\ last = Idle
    /\ chain = <<>>
    /\ node = [id |-> ListNode, guards |-> {}]
    /\ phase = "Ide"
    /\ pos = 0
    /\ fired = <<>>
    /\ depth = 0
    /\ world \in [kind : {"import"}, root : RootPath, found : BOOLEAN, evalOk : BOOLEAN]
    /\ query \in [kind : {"pending"}, source : SourcePath, path : ImportPath]
    /\ answer = NoAnswer

AnalyzeImport ==
    /\ query' = [query EXCEPT !.kind = "analyze_import"]
    /\ answer' = analyze_import(world, query.source, query.path)
    /\ UNCHANGED <<world>>
    /\ UNCHANGED engineVars

NextImport == AnalyzeImport

SpecImport == InitImport /\ [][NextImport]_vars

(***************************************************************************)
(* Properties of the recipe engine                                         *)
(***************************************************************************)
Applied == last.op = "apply"
Matched == node.id = TheRecipe.pattern

\* C1: in the resolution loop no recipe fires through selector S on the
\* content that an earlier application through S produced, and a chain of
\* rules that all return the matched node itself fires each selector at most
\* once, so that the content re-enters at most once per recipe.
SelfReferential(r) == r.func.body = "arg"
C1_NoRefire ==
    /\ \A i \in 1 .. Len(fired) : \A j \in 1 .. Len(fired) :
            i < j => ~(fired[j].sel = fired[i].sel /\ fired[j].target = fired[i].out)
    /\ (\A k \in 1 .. Len(chain) : SelfReferential(chain[k])) => depth <= Len(chain)

\* C1 witness: a rule returned the node it matched, the content re-entered
\* and the chain was exhausted without the rule firing again.
C1_Witness ==
    /\ phase = "Exhausted"
    /\ Len(fired) = 1
    /\ depth = 1
    /\ SelfReferential(chain[fired[1].sel.n])
    /\ fired[1].out.id = chain[fired[1].sel.n].pattern

\* C2: content returned by apply as Ok(Some(content)) carries Guard(sel) for
\* the selector of the call.
C2_OutputGuarded ==
    (Applied /\ last.res.tag = "Some") => last.sel \in last.res.content.guards

\* C2 witness: the target carried the guard of a Base selector, apply cleared
\* it, the function returned the node it was given, and content came back.
C2_Witness ==
    /\ Applied
    /\ last.res.tag = "Some"
    /\ last.sel.tag = "Base"
    /\ last.sel \in node.guards
    /\ TheRecipe.func.body = "arg"

\* C3: applicable is true iff the identities are equal; apply returns
\* Ok(None) iff they differ, then without clearing a guard or calling the
\* function; on a match it returns content or an error.
C3_MatchOrNone ==
    /\ last.op = "applicable" => (last.res.tag = "True" <=> Matched)
    /\ Applied =>
        /\ last.res.tag = "None" <=> ~Matched
        /\ ~Matched => (~last.res.unguarded /\ last.res.calls = <<>>)
        /\ Matched => (last.res.tag \in {"Some", "Err"} /\ Len(last.res.calls) = 1)

\* C3 witness: apply on a target of another kind than the pattern.
C3_Witness == Applied /\ ~Matched /\ last.res.tag = "None" /\ last.sel \in node.guards

\* C4 as claimed: a zero-argument function receives no arguments, a
\* one-argument function receives the field encoding of the matched node, and
\* no function receives a number of arguments other than its declared arity.
C4_Original ==
    (Applied /\ Len(last.res.calls) = 1) =>
        LET args == last.res.calls[1]
            argc == TheRecipe.func.argc
        IN  /\ argc = 0 => args = <<>>
            /\ argc = 1 => args = <<DictValue(encode(node))>>
            /\ argc >= 0 => Len(args) = argc

\* C4 as amended: a zero-argument function receives no arguments; a function
\* of any other declared arity (one, more than one, or none declared) receives
\* exactly one argument, the matched node as content with the guard of the
\* selector cleared and the node's field encoding attached.
C4_Amended ==
    (Applied /\ Len(last.res.calls) = 1) =>
        LET args == last.res.calls[1]
            argc == TheRecipe.func.argc
            shown == [id |-> node.id, guards |-> node.guards \ {last.sel},
                      dict |-> encode(node)]
        IN  /\ argc = 0 => args = <<>>
            /\ argc # 0 => args = <<[tag |-> "Content", content |-> shown,
                                     dict |-> NoDict]>>

\* C4 witness: a one-argument function was called on a node that carried the
\* guard of the selector.
C4_Witness ==
    /\ Applied
    /\ Len(last.res.calls) = 1
    /\ TheRecipe.func.argc = 1
    /\ Len(last.res.calls[1]) = 1
    /\ last.sel \in node.guards

\* C5: on a match apply returns an error exactly when the function raised or
\* its value does not convert to content, the error is tagged at the span of
\* the recipe, and no content comes back with it.
C5_ErrorAtRecipeSpan ==
    (Applied /\ Matched) =>
        LET f == TheRecipe.func
            given == IF f.argc = 0 THEN 0 ELSE 1
            raises == f.body = "raise" \/ (f.argc >= 0 /\ given # f.argc)
            noContent == f.body = "none"
        IN  /\ last.res.tag = "Err" <=> (raises \/ noContent)
            /\ last.res.tag = "Err" =>
                /\ last.res.err.span = TheRecipe.span
                /\ last.res.content = NoContent

\* C10: interruption is Some(List) iff the pattern is the list or the
\* enumeration node kind, whatever the function, the span and earlier calls.
C10_Interruption ==
    last.op = "interruption" =>
        (last.res.tag = "List" <=> TheRecipe.pattern \in {ListNode, EnumNode})
        /\ last.res.tag \in {"List", "None"}

\* C10 witness: the interruption of a recipe for enumerations.
C10_Witness ==
    /\ last.op = "interruption"
    /\ TheRecipe.pattern = EnumNode
    /\ last.res.tag = "List"

(***************************************************************************)
(* Properties of the speculative value resolver                            *)
(***************************************************************************)
Analyzed == query.kind = "analyze_expr"

HasField(v, name) == v.tag = "Dict" /\ \E e \in v.entries : e.name = name
Projection(v, name) == (CHOOSE e \in v.entries : e.name = name).val

\* The successful projections of a field over candidate values, in order.
Projections(candidates, name) ==
    LET Has(v) == HasField(v, name)
        kept == SelectSeq(candidates, Has)
    IN  [i \in 1 .. Len(kept) |-> Projection(kept[i], name)]

\* The values a run offers at a span, in the order of the run.
ValuesAt(events, span) ==
    LET At(e) == e.span = span
        kept == SelectSeq(events, At)
    IN  [i \in 1 .. Len(kept) |-> kept[i].value]

\* C6: resolving a field access returns exactly the successful projections of
\* its field over the values resolved for its base expression, in the order
\* of the base, and the empty sequence when there is none.
C6_FieldAccessUnion ==
    (Analyzed /\ Tree[query.node].kind = "FieldAccess") =>
        LET base == analyze_expr(world, Tree[query.node].children[1]).values
        IN  /\ answer.kind = "values"
            /\ answer.values = Projections(base, Tree[query.node].fld)

\* C6 witness: the base a of a.b resolved to three candidates of which the
\* first and the third have the field b and the second has not.
C6_Witness ==
    /\ Analyzed
    /\ query.node = 3
    /\ LET base == analyze_expr(world, 4).values
       IN  /\ Len(base) = 3
           /\ HasField(base[1], "b") /\ ~HasField(base[2], "b") /\ HasField(base[3], "b")
           /\ answer.values = <<Projection(base[1], "b"), Projection(base[3], "b")>>

\* A node resolved by a full evaluation of its source.
OnFullEvaluationPath(n) ==
    /\ Tree[n].kind \in {"Ident", "FuncCall"}
    /\ ~(Tree[Tree[n].parent].kind = "FieldAccess" /\ Tree[n].index > 0)

\* C7: on the full-evaluation path the values recorded at the span of the
\* node come back in the order of the run, with or without an error of the
\* run; when every value of the span precedes the error, they are the values
\* of the run without the error; the error itself never comes back.
C7_PartialEvaluation ==
    (Analyzed /\ OnFullEvaluationPath(query.node)) =>
        LET ran == IF world.fails THEN SubSeq(world.events, 1, world.errAt)
                   ELSE world.events
            rest == SubSeq(world.events, Len(ran) + 1, Len(world.events))
        IN  /\ answer.kind = "values"
            /\ answer.values = ValuesAt(ran, query.node)
            /\ ValuesAt(rest, query.node) = <<>> =>
                    answer.values = ValuesAt(world.events, query.node)

\* C7 witness: the run failed after it had produced two values at the probed
\* span, and went on to other spans only.
C7_Witness ==
    /\ Analyzed
    /\ query.node = 10
    /\ world.fails
    /\ world.errAt = 2
    /\ Len(world.events) = 3
    /\ world.events[3].span # 10
    /\ Len(answer.values) = 2

(***************************************************************************)
(* Properties of the module resolver                                       *)
(***************************************************************************)
Imported == query.kind = "analyze_import"

\* Lexically normalized: no "." component, and no ".." component right after
\* a normal one.
IsNormalized(comps) ==
    \A i \in 1 .. Len(comps) :
        /\ comps[i].kind # "CurDir"
        /\ (comps[i].kind = "ParentDir" /\ i > 1) => comps[i - 1].kind # "Normal"

\* The lexical normal form by rewriting: drop every ".", then cancel the
\* leftmost normal component followed by ".." until there is none.
DropCurDir(comps) == LET Keep(c) == c.kind # "CurDir" IN SelectSeq(comps, Keep)
RECURSIVE Cancel(_)
Cancel(comps) ==
    LET at == {i \in 1 .. Len(comps) - 1 :
                    comps[i].kind = "Normal" /\ comps[i + 1].kind = "ParentDir"}
    IN  IF at = {} THEN comps
        ELSE LET i == CHOOSE k \in at : \A m \in at : k <= m
             IN  Cancel(SubSeq(comps, 1, i - 1) \o SubSeq(comps, i + 2, Len(comps)))
NormalForm(s) == Cancel(DropCurDir(Components(s)))

\* The path the import stands for: under the project root for a path that
\* begins with "/", beside the importing file otherwise.
Located(root, src, path) ==
    IF HasRoot(path) THEN join(root, Tail(path))
    ELSE join(IF parent(src).some THEN parent(src).path ELSE <<>>, path)

\* C8 as claimed: for every import path and every importing source path the
\* path handed to resolve is lexically normalized and is the located path.
C8_Original ==
    Imported =>
        /\ IsNormalized(answer.full)
        /\ answer.full = NormalForm(Located(world.root, query.source, query.path))

\* C8 as amended: that holds for a path that begins with "/" and for an
\* importing source with a containing directory; for a source without one
\* (the empty path, or a bare root) a path that does not begin with "/" is
\* handed to resolve as written.
C8_Amended ==
    Imported =>
        IF HasRoot(query.path) \/ parent(query.source).some
        THEN /\ IsNormalized(answer.full)
             /\ answer.full = NormalForm(Located(world.root, query.source, query.path))
        ELSE answer.full = Components(query.path)

\* C8 witness: importing "../a" from /p/s/b resolves /p/a.
C8_Witness ==
    /\ Imported
    /\ query.source = <<"/", "p", "/", "s", "/", "b">>
    /\ query.path = <<".", ".", "/", "a">>
    /\ answer.full = <<RootDir, Normal(<<"p">>), Normal(<<"a">>)>>

\* C9: analyze_import returns a module or none, never an error; a module
\* only when resolve and the evaluation both succeed; and when resolve fails
\* no evaluation is started.
C9_BestEffort ==
    Imported =>
        /\ answer.kind \in {"module", "none"}
        /\ answer.kind = "module" <=> (world.found /\ world.evalOk)
        /\ ~world.found => answer.evals = 0

\* C9 witness: the path resolved and the evaluation of the source failed.
C9_Witness ==
    /\ Imported
    /\ world.found
    /\ ~world.evalOk
    /\ answer.kind = "none"
    /\ answer.evals = 1

====
